---- MODULE Spec2Model ----
(***************************************************************************)
(* Model of netflix_agent_app.py: a Streamlit script that is rerun from    *)
(* top to bottom on every user interaction.  Per-session state             *)
(* (st.session_state) survives the reruns; everything else is recomputed.  *)
(*                                                                         *)
(* Text that the code lower-cases or searches (genres, tags, moods,        *)
(* keywords, descriptions) is a sequence of one-character strings, so      *)
(* that str.lower() and the substring test are computed, not assumed.      *)
(* Titles and age ratings are only compared for equality and are plain     *)
(* strings.                                                                *)
(***************************************************************************)
EXTENDS Integers, Sequences, FiniteSets, TLC

VARIABLES
    all_movies,      \* the catalog loaded from movies.json (never mutated)
    shown_titles,    \* st.session_state.shown_titles
    shuffle_seed,    \* st.session_state.shuffle_seed
    user_input,      \* content of the text box
    parsed_filters,  \* filter mapping of the last run
    rendered,        \* movies on screen after the last run, in display order
    message,         \* st.error / st.warning shown by the last run
    button_shown,    \* the "Show me different options" button is on screen
    run,             \* record of the last run: its trigger, inputs and pre-state
    displayed,       \* history: titles rendered since shown_titles was last emptied
    replayed,        \* what a second run from the last run's start renders
    movie,           \* scoring harness: the record being scored
    filters,         \* scoring harness: the filter mapping
    score,           \* scoring harness: score_movie(movie, filters)
    score_before     \* scoring harness: the score before the last term was added

vars == <<all_movies, shown_titles, shuffle_seed, user_input, parsed_filters,
          rendered, message, button_shown, run, displayed, replayed,
          movie, filters, score, score_before>>

sessionVars == <<all_movies, shown_titles, shuffle_seed, user_input,
                 parsed_filters, rendered, message, button_shown, run,
                 displayed, replayed>>

scoreVars == <<movie, filters, score, score_before>>

-----------------------------------------------------------------------------
(* Bounds of the model *)

\* seeds are drawn from 0..MaxSeed (the code draws from 0..10000 and 0..1000000)
MaxSeed == 2

\* the scoring harness adds matching terms while a filter list is shorter than this
MaxTerms == 2

-----------------------------------------------------------------------------
(* Text *)

\* str.lower() on one character, for the letters the model's texts use
LowerChar(c) ==
    CASE c = "C" -> "c"
      [] c = "D" -> "d"
      [] c = "F" -> "f"
      [] c = "H" -> "h"
      [] c = "I" -> "i"
      [] c = "M" -> "m"
      [] c = "O" -> "o"
      [] c = "R" -> "r"
      [] c = "S" -> "s"
      [] c = "T" -> "t"
      [] c = "U" -> "u"
      [] c = "N" -> "n"
      [] c = "E" -> "e"
      [] c = "A" -> "a"
      [] c = "Y" -> "y"
      [] OTHER -> c

\* s.lower()
Lower(s) == [i \in 1..Len(s) |-> LowerChar(s[i])]

\* [x.lower() for x in xs]
LowerAll(xs) == [i \in 1..Len(xs) |-> Lower(xs[i])]

\* x in xs, for a list xs
Contains(xs, x) == \E i \in 1..Len(xs) : xs[i] = x

\* k in description, for strings: k occurs as a contiguous substring
IsSubstring(k, s) ==
    \E start \in 0..(Len(s) - Len(k)) :
        \A i \in 1..Len(k) : s[start + i] = k[i]

horror  == <<"h","o","r","r","o","r">>
romance == <<"r","o","m","a","n","c","e">>
comedy  == <<"c","o","m","e","d","y">>

-----------------------------------------------------------------------------
(* Filter mapping: the keys genres, mood, min_age_rating, keywords.  A      *)
(* missing list key reads as [] (filters.get(key, [])); a missing           *)
(* min_age_rating is the value Missing.                                     *)

Missing == "<missing>"

\* filters.get("min_age_rating", default)
GetMinAgeRating(f, default) ==
    IF f.min_age_rating = Missing THEN default ELSE f.min_age_rating

-----------------------------------------------------------------------------
(* score_movie *)

\* the horror test with "not in" written as "in"
RejectedHorrorInverted(genres, movie_genres) ==
    Contains(genres, horror) /\ Contains(movie_genres, horror)

\* the horror test left out
RejectedHorrorNever(genres, movie_genres) == FALSE

\* "horror" in genres and "horror" not in movie_genres

RejectedHorror(genres, movie_genres) ==
    Contains(genres, horror) /\ ~Contains(movie_genres, horror)

\* "romance" in genres and "romance" not in movie_genres
RejectedRomance(genres, movie_genres) ==
    Contains(genres, romance) /\ ~Contains(movie_genres, romance)

\* the romcom bonus
RomcomBonus(genres, movie_genres) ==
    IF Contains(genres, romance) /\ Contains(genres, comedy)
    THEN IF Contains(movie_genres, romance) /\ Contains(movie_genres, comedy)
         THEN 3
         ELSE IF Contains(movie_genres, romance) \/ Contains(movie_genres, comedy)
              THEN 1
              ELSE 0
    ELSE 0

RECURSIVE GenreScore(_, _)
\* for g in genres: if g in movie_genres: score += 2 if g in ["romance", "horror"] else 1
GenreScore(genres, movie_genres) ==
    IF genres = <<>> THEN 0
    ELSE LET g == Head(genres)
         IN (IF Contains(movie_genres, g)
             THEN (IF g = romance \/ g = horror THEN 2 ELSE 1)
             ELSE 0)
            + GenreScore(Tail(genres), movie_genres)

RECURSIVE MoodScore(_, _)
\* for m in moods: if m in movie_tags: score += 1
MoodScore(moods, movie_tags) ==
    IF moods = <<>> THEN 0
    ELSE (IF Contains(movie_tags, Head(moods)) THEN 1 ELSE 0)
         + MoodScore(Tail(moods), movie_tags)

RECURSIVE KeywordScore(_, _)
\* for k in keywords: if k in description: score += 1
KeywordScore(keywords, description) ==
    IF keywords = <<>> THEN 0
    ELSE (IF IsSubstring(Head(keywords), description) THEN 1 ELSE 0)
         + KeywordScore(Tail(keywords), description)

\* the bonus with the equality test dropped: any rated movie gets it
AgeBonusWhenRated(m, f) ==
    IF f.min_age_rating # Missing /\ f.min_age_rating # ""
       /\ m.age_rating \in {"G", "PG", "PG-13", "R", "NC-17"}
    THEN 1 ELSE 0

\* if filters.get("min_age_rating") and movie.get("age_rating") == filters["min_age_rating"]
AgeBonus(m, f) ==
    IF f.min_age_rating # Missing /\ f.min_age_rating # ""
       /\ m.age_rating = f.min_age_rating
    THEN 1 ELSE 0

\* score_movie(movie, filters)[0]
score_movie(m, f) ==
    LET genres       == LowerAll(f.genres)
        moods        == LowerAll(f.mood)
        keywords     == LowerAll(f.keywords)
        movie_genres == LowerAll(m.genres)
        movie_tags   == LowerAll(m.tags)
        description  == Lower(m.description)
    IN  IF RejectedHorror(genres, movie_genres) THEN 0
        ELSE IF RejectedRomance(genres, movie_genres) THEN 0
        ELSE RomcomBonus(genres, movie_genres)
             + GenreScore(genres, movie_genres)
             + MoodScore(moods, movie_tags)
             + KeywordScore(keywords, description)
             + AgeBonus(m, f)

-----------------------------------------------------------------------------
(* Catalog: movie records (title, genres, tags, age_rating, description).   *)
(* movies.json is not part of the source; these catalogs are inputs.        *)

Txt_Comedy  == <<"C","o","m","e","d","y">>
Txt_Horror  == <<"H","o","r","r","o","r">>
Txt_HORROR  == <<"H","O","R","R","O","R">>
Txt_Romance == <<"R","o","m","a","n","c","e">>
Txt_Drama   == <<"D","r","a","m","a">>
Txt_Fun     == <<"F","u","n">>
Txt_fun     == <<"f","u","n">>
Txt_Intense == <<"I","n","t","e","n","s","e">>
Txt_Dino    == <<"D","i","n","o">>
Txt_toy     == <<"t","o","y">>

Movie(title, genres, tags, age_rating, description) ==
    [title |-> title, genres |-> genres, tags |-> tags,
     age_rating |-> age_rating, description |-> description]

MainCatalog == <<
    Movie("Toy Tale",     <<Txt_Comedy>>,              <<Txt_Fun>>,     "G",
          <<"A"," ","t","o","y">>),
    Movie("Dino Dash",    <<Txt_Comedy>>,              <<Txt_Fun>>,     "PG",
          <<"d","i","n","o","s">>),
    Movie("Love Laughs",  <<Txt_Romance, Txt_Comedy>>, <<Txt_Fun>>,     "PG-13",
          <<"a"," ","d","a","t","e">>),
    Movie("Night Fright", <<Txt_Horror>>,              <<Txt_Intense, Txt_Fun>>, "R",
          <<"D","i","n","o"," ","d","e","n">>),
    Movie("Scream Team",  <<Txt_Horror, Txt_Comedy>>,  <<Txt_Fun>>,     "R",
          <<"t","e","a","m">>),
    Movie("Last Letter",  <<Txt_Romance, Txt_Comedy>>, <<Txt_Intense>>, "NC-17",
          <<"n","o","t","e">>),
    Movie("Lost Reel",    <<Txt_Comedy>>,              <<Txt_Fun>>,     "Not Rated",
          <<"t","o","y","s">>) >>

\* the catalog of the specification's example: one PG comedy and one R drama
ExampleCatalog == <<
    Movie("PG Comedy", <<Txt_Comedy>>, <<Txt_Fun>>,     "PG", <<"t","o","y">>),
    Movie("R Drama",   <<Txt_Drama>>,  <<Txt_Intense>>, "R",  <<"d","e","n">>) >>

Catalogs == {MainCatalog, ExampleCatalog}

-----------------------------------------------------------------------------
(* Replies of the filter-extraction call *)

Filters(genres, mood, min_age_rating, keywords) ==
    [genres |-> genres, mood |-> mood,
     min_age_rating |-> min_age_rating, keywords |-> keywords]

\* parsed_filters = {}
EmptyFilters == Filters(<<>>, <<>>, Missing, <<>>)

\* the filter mapping of the specification's example
ExampleFilters == Filters(<<Txt_Comedy>>, <<>>, "PG", <<>>)

FilterReplies == {
    ExampleFilters,
    Filters(<<Txt_Comedy>>, <<Txt_fun>>, "G", <<>>),
    Filters(<<Txt_Comedy>>, <<>>, "NC-17", <<>>),
    Filters(<<Txt_HORROR>>, <<Txt_Fun>>, "R", <<Txt_toy>>),
    Filters(<<Txt_Romance, Txt_Comedy>>, <<Txt_Fun>>, "PG-13", <<Txt_Dino>>),
    Filters(<<>>, <<>>, "R", <<>>),
    Filters(<<>>, <<Txt_Fun>>, "PG13", <<>>) }

\* what client.chat.completions.create + json.loads can yield
Reply(kind, value) == [kind |-> kind, value |-> value]

Replies ==
    { Reply("api_error", EmptyFilters),     \* the call raises
      Reply("unparseable", EmptyFilters),   \* json.loads raises
      Reply("not_mapping", EmptyFilters) }  \* valid JSON that is no mapping
    \cup { Reply("mapping", f) : f \in FilterReplies }

-----------------------------------------------------------------------------
(* Age-rating filter *)

rating_order == <<"G", "PG", "PG-13", "R", "NC-17">>

InOrder(r) == \E i \in 1..Len(rating_order) : rating_order[i] = r

\* rating_order.index(r), defined when InOrder(r)
Index(r) == CHOOSE i \in 1..Len(rating_order) : rating_order[i] = r

\* is_rating_appropriate with > written for <=
is_rating_appropriate_reversed(movie_rating, user_min_rating) ==
    IF InOrder(movie_rating) /\ InOrder(user_min_rating)
    THEN Index(movie_rating) > Index(user_min_rating)
    ELSE FALSE

\* is_rating_appropriate; a rating outside rating_order raises ValueError: False
is_rating_appropriate(movie_rating, user_min_rating) ==
    IF InOrder(movie_rating) /\ InOrder(user_min_rating)
    THEN Index(movie_rating) <= Index(user_min_rating)
    ELSE FALSE

\* is_relaxed_rating_acceptable with every rated movie accepted
is_relaxed_rating_any(movie_rating, user_min_rating) ==
    InOrder(movie_rating)

\* is_relaxed_rating_acceptable: user_min_rating is not read
is_relaxed_rating_acceptable(movie_rating, user_min_rating) ==
    IF InOrder(movie_rating)
    THEN Index(movie_rating) <= Index("PG-13")
    ELSE FALSE

\* filter_movies_with_fallback
filter_movies_with_fallback(movies, f) ==
    LET min_rating == GetMinAgeRating(f, "R")
        Strict(m)  == is_rating_appropriate(m.age_rating, min_rating)
        Relaxed(m) == ~Strict(m)
                      /\ is_relaxed_rating_acceptable(m.age_rating, min_rating)
        strict_matches  == SelectSeq(movies, Strict)
        relaxed_matches == SelectSeq(movies, Relaxed)
    IN  IF strict_matches # <<>> THEN strict_matches ELSE relaxed_matches

-----------------------------------------------------------------------------
(* Candidate selection *)

\* sizes the main logic slices by
PoolSize == 25
CandidateCount == 12
ResultCount == 4

\* xs[:n]
Take(xs, n) == SubSeq(xs, 1, IF Len(xs) < n THEN Len(xs) ELSE n)

TitlesOf(ms) == [i \in 1..Len(ms) |-> ms[i].title]

Range(xs) == {xs[i] : i \in 1..Len(xs)}

\* [m for m in all_movies] with nothing excluded
UnshownAll(movies, shown) == movies

\* [m for m in all_movies if m["title"] not in shown_titles]
Unshown(movies, shown) ==
    LET Fresh(m) == ~Contains(shown, m.title)
    IN  SelectSeq(movies, Fresh)

\* [(score_movie(m, filters)[0], m) for m in filtered_movies] and the score > 0 test
Scored(movies, f) ==
    LET pairs == [i \in 1..Len(movies) |->
                     [score |-> score_movie(movies[i], f), movie |-> movies[i]]]
        Positive(pair) == pair.score > 0
    IN  SelectSeq(pairs, Positive)

\* one step of a stable descending sort: x goes behind every pair scoring >= x
InsertByScore(x, sorted) ==
    LET k == Cardinality({i \in 1..Len(sorted) : sorted[i].score >= x.score})
    IN  SubSeq(sorted, 1, k) \o <<x>> \o SubSeq(sorted, k + 1, Len(sorted))

RECURSIVE SortFrom(_, _)
SortFrom(pairs, sorted) ==
    IF pairs = <<>> THEN sorted
    ELSE SortFrom(Tail(pairs), InsertByScore(Head(pairs), sorted))

\* sorted(scored, key=lambda x: x[0], reverse=True): stable
SortedScored(pairs) == SortFrom(pairs, <<>>)

\* the k-th state of the generator seeded with seed (a small linear
\* congruential generator stands for the Mersenne Twister of random.Random)
RECURSIVE RngState(_, _)
RngState(seed, k) ==
    IF k = 0 THEN seed % 97
    ELSE (RngState(seed, k - 1) * 5 + 3) % 97

\* the k-th call of randbelow(n)
RandBelow(seed, k, n) == RngState(seed, k) % n

Swap(xs, i, j) == [xs EXCEPT ![i] = xs[j], ![j] = xs[i]]

RECURSIVE ShuffleFrom(_, _, _)
\* for i in reversed(range(1, len(x))): j = randbelow(i + 1); x[i], x[j] = x[j], x[i]
\* (positions here are 1-based; k counts the draws made so far)
ShuffleFrom(seed, xs, i) ==
    IF i < 2 THEN xs
    ELSE LET k == Len(xs) - i + 1
             j == RandBelow(seed, k, i) + 1
         IN  ShuffleFrom(seed, Swap(xs, i, j), i - 1)

\* an unseeded random.shuffle: any order
ShuffleOutcomesUnseeded(seed, xs) ==
    { [i \in 1..Len(xs) |-> xs[p[i]]] :
        p \in { q \in [1..Len(xs) -> 1..Len(xs)] :
                  \A a, b \in 1..Len(xs) : a # b => q[a] # q[b] } }

\* the orders random.Random(seed).shuffle(xs) can leave xs in: one per seed
ShuffleOutcomes(seed, xs) == { ShuffleFrom(seed, xs, Len(xs)) }

-----------------------------------------------------------------------------
(* Explanation and rendering *)

Explained   == "explanation"
Placeholder == "(There was an error generating a response.)"

\* explain_why without its try/except: the API error propagates
explain_why_uncaught(m, api_fails) ==
    [raised |-> api_fails, text |-> Explained]

\* explain_why: the completion call is wrapped in try/except Exception
explain_why(m, api_fails) ==
    [raised |-> FALSE,
     text   |-> IF api_fails THEN Placeholder ELSE Explained]

RECURSIVE RenderLoop(_, _, _, _)
\* for movie in final_movies: render it, then shown_titles.append(movie["title"]).
\* acc carries what is on screen, the list shown_titles (appended to in place),
\* the number of explanation calls made and whether an exception ended the loop.
RenderLoop(final_movies, i, fails, acc) ==
    IF i > Len(final_movies) THEN acc
    ELSE LET m == final_movies[i]
             e == explain_why(m, i \in fails)
         IN  IF e.raised
             THEN [acc EXCEPT !.calls = acc.calls + 1, !.raised = TRUE]
             ELSE RenderLoop(final_movies, i + 1, fails,
                     [acc EXCEPT
                        !.rendered = Append(acc.rendered,
                                        [title |-> m.title, age_rating |-> m.age_rating,
                                         genres |-> m.genres, explanation |-> e.text]),
                        !.shown = Append(acc.shown, m.title),
                        !.calls = acc.calls + 1])

-----------------------------------------------------------------------------
(* One run of the script (the main logic), from the session state it finds  *)

Seeds == 0..MaxSeed

\* what the user can have in the text box
Inputs == {"", "something fun for tonight"}

Post(shown, seed, f, shown_movies, msg, button, calls, clicked, filtered_n, fails) ==
    [shown_titles |-> shown, shuffle_seed |-> seed, parsed_filters |-> f,
     rendered |-> shown_movies, message |-> msg, button_shown |-> button,
     calls |-> calls, clicked |-> clicked, filtered_n |-> filtered_n,
     fails |-> fails]

\* the except branch of the filter-extraction call without st.stop():
\* only a failed call ends the run, an unparseable reply goes on with {}
ExtractionAbortsOnCallOnly(reply) == reply.kind = "api_error"

\* the except branch of the filter-extraction call: st.error and st.stop()
ExtractionAborts(reply) == reply.kind \in {"api_error", "unparseable"}

\* the refresh button is drawn only when more movies passed the age filter
\* than were rendered
ButtonDrawn(filtered_movies, final_movies) ==
    Len(filtered_movies) > Len(final_movies)

\* The states a run can end in, over what the run does not control: the order
\* the shuffle leaves, the explanation calls that fail (fails: positions of
\* final_movies) and the seed random.randint draws in the button handler.
\* pressed: the run was triggered by the refresh button.
RunOutcomes(catalog, shown, seed, input, reply, pressed) ==
    IF input = ""
    THEN { Post(shown, seed, EmptyFilters, <<>>, "", FALSE, 0, FALSE, 0, {}) }
    ELSE IF ExtractionAborts(reply)
    THEN { Post(shown, seed, EmptyFilters, <<>>, "gpt_error", FALSE, 0, FALSE, 0, {}) }
    ELSE
    LET f        == IF reply.kind = "mapping" THEN reply.value ELSE EmptyFilters
        unshown  == Unshown(catalog, shown)
    IN  IF reply.kind = "not_mapping" /\ unshown # <<>>
        \* filters.get on a value that is no mapping: an uncaught AttributeError
        THEN { Post(shown, seed, EmptyFilters, <<>>, "exception", FALSE, 0, FALSE, 0, {}) }
        ELSE
        LET filtered_movies == filter_movies_with_fallback(unshown, f)
            sorted_scored   == SortedScored(Scored(filtered_movies, f))
            pool == [i \in 1..Len(Take(sorted_scored, PoolSize)) |->
                        sorted_scored[i].movie]
            Final(shuffled) == Take(Take(shuffled, CandidateCount), ResultCount)
            Loop(final_movies, fails) ==
                RenderLoop(final_movies, 1, fails,
                           [rendered |-> <<>>, shown |-> shown,
                            calls |-> 0, raised |-> FALSE])
        IN  IF pool = <<>>
            THEN { Post(shown, seed, f, <<>>, "no_matches", FALSE, 0, FALSE,
                        Len(filtered_movies), {}) }
            ELSE UNION UNION {
                   { LET final_movies == Final(shuffled)
                         loop    == Loop(final_movies, fails)
                         button  == ~loop.raised
                                    /\ ButtonDrawn(filtered_movies, final_movies)
                         clicked == button /\ pressed
                     IN  { Post(IF clicked THEN <<>> ELSE loop.shown,
                                IF clicked THEN new_seed ELSE seed,
                                f, loop.rendered,
                                IF loop.raised THEN "exception" ELSE "",
                                button, loop.calls, clicked,
                                Len(filtered_movies), fails)
                           : new_seed \in IF clicked THEN Seeds ELSE {seed} }
                     : fails \in SUBSET (1..Len(Final(shuffled))) }
                   : shuffled \in ShuffleOutcomes(seed, pool) }

\* no second run has been made from the last run's start
NotReplayed == <<"not replayed">>

\* the run leaves `post`; `run` records what it started from
Rerun(input, reply, pressed) ==
    \E post \in RunOutcomes(all_movies, shown_titles, shuffle_seed, input,
                            reply, pressed) :
        /\ user_input' = input
        /\ shown_titles' = post.shown_titles
        /\ shuffle_seed' = post.shuffle_seed
        /\ parsed_filters' = post.parsed_filters
        /\ rendered' = post.rendered
        /\ message' = post.message
        /\ button_shown' = post.button_shown
        /\ run' = [trigger      |-> IF pressed THEN "press" ELSE "submit",
                   input        |-> input,
                   reply        |-> reply,
                   fails        |-> post.fails,
                   pre_shown    |-> shown_titles,
                   pre_seed     |-> shuffle_seed,
                   pre_rendered |-> TitlesOf(rendered),
                   pre_displayed |-> displayed,
                   calls        |-> post.calls,
                   clicked      |-> post.clicked,
                   filtered_n   |-> post.filtered_n]
        /\ displayed' = IF post.clicked THEN {}
                        ELSE displayed \cup Range(TitlesOf(post.rendered))
        /\ replayed' = NotReplayed
        /\ UNCHANGED <<all_movies, scoreVars>>

NoReply == Reply("none", EmptyFilters)

\* the user edits the text box (or reruns the page): the script runs; with an
\* empty text box no completion call is made
Submit ==
    \E input \in Inputs :
        \E reply \in IF input = "" THEN {NoReply} ELSE Replies :
            Rerun(input, reply, FALSE)

\* the user presses "Show me different options": the script runs with the
\* same text, and st.button returns True where the button is drawn again
PressRefresh ==
    /\ button_shown
    /\ \E reply \in Replies : Rerun(user_input, reply, TRUE)

NoRun ==
    [trigger |-> "none", input |-> "", reply |-> NoReply,
     fails |-> {}, pre_shown |-> <<>>, pre_seed |-> 0, pre_rendered |-> <<>>,
     pre_displayed |-> {},
     calls |-> 0, clicked |-> FALSE, filtered_n |-> 0]

\* score_movie has not been called
Unscored == 0 - 1

\* the scoring harness at rest
ScoreIdle ==
    /\ movie = MainCatalog[1]
    /\ filters = EmptyFilters
    /\ score = Unscored
    /\ score_before = Unscored

\* a new session: the session-state defaults, before the first interaction
Init ==
    /\ all_movies \in Catalogs
    /\ shown_titles = <<>>
    /\ shuffle_seed \in Seeds
    /\ user_input = ""
    /\ parsed_filters = EmptyFilters
    /\ rendered = <<>>
    /\ message = ""
    /\ button_shown = FALSE
    /\ run = NoRun
    /\ displayed = {}
    /\ replayed = NotReplayed
    /\ ScoreIdle

Next == Submit \/ PressRefresh

Spec == Init /\ [][Next]_vars

-----------------------------------------------------------------------------
(* A second run from the state the last run started in (for comparing two   *)
(* interactions that start alike)                                           *)

Replay ==
    /\ run.trigger # "none"
    /\ replayed = NotReplayed
    /\ \E post \in RunOutcomes(all_movies, run.pre_shown, run.pre_seed,
                               run.input, run.reply, run.trigger = "press") :
          replayed' = TitlesOf(post.rendered)
    /\ UNCHANGED <<all_movies, shown_titles, shuffle_seed, user_input,
                   parsed_filters, rendered, message, button_shown, run,
                   displayed, scoreVars>>

NextStable == Submit \/ PressRefresh \/ Replay

SpecStable == Init /\ [][NextStable]_vars

-----------------------------------------------------------------------------
(* Scoring harness: score_movie applied to a record and a filter mapping,   *)
(* then to the mapping with one more matching term                          *)

GenreTerms   == {Txt_Comedy, Txt_Horror, Txt_HORROR, Txt_Romance, Txt_Drama}
MoodTerms    == {Txt_Fun, Txt_fun, Txt_Intense}
KeywordTerms == {Txt_Dino, Txt_toy, <<"T","O","Y">>, <<>>}

\* filter mappings with no genre, mood or keyword
BareFilters ==
    { Filters(<<>>, <<>>, r, <<>>) :
        r \in {"G", "PG", "PG-13", "R", "NC-17", "Not Rated", "", Missing} }

Records == Range(MainCatalog) \cup Range(ExampleCatalog)

\* a session that is not used
SessionIdle ==
    /\ all_movies = MainCatalog
    /\ shown_titles = <<>>
    /\ shuffle_seed = 0
    /\ user_input = ""
    /\ parsed_filters = EmptyFilters
    /\ rendered = <<>>
    /\ message = ""
    /\ button_shown = FALSE
    /\ run = NoRun
    /\ displayed = {}
    /\ replayed = NotReplayed

InitScore ==
    /\ SessionIdle
    /\ movie \in Records
    /\ filters \in FilterReplies \cup BareFilters
    /\ score = Unscored
    /\ score_before = Unscored

\* score_movie(movie, filters)
ScoreIt ==
    /\ score = Unscored
    /\ score' = score_movie(movie, filters)
    /\ score_before' = score_movie(movie, filters)
    /\ UNCHANGED <<movie, filters, sessionVars>>

\* the mapping gets a new value and the record is scored again
Rescore(f) ==
    /\ score # Unscored
    /\ filters' = f
    /\ score_before' = score
    /\ score' = score_movie(movie, f)
    /\ UNCHANGED <<movie, sessionVars>>

\* one more genre that is among the movie's genres, whatever the letter case
AddGenre ==
    \E g \in GenreTerms :
        /\ Len(filters.genres) < MaxTerms
        /\ Contains(LowerAll(movie.genres), Lower(g))
        /\ Rescore([filters EXCEPT !.genres = Append(@, g)])

\* one more mood that is among the movie's tags
AddMood ==
    \E m \in MoodTerms :
        /\ Len(filters.mood) < MaxTerms
        /\ Contains(LowerAll(movie.tags), Lower(m))
        /\ Rescore([filters EXCEPT !.mood = Append(@, m)])

\* one more keyword that is a substring of the movie's description
AddKeyword ==
    \E k \in KeywordTerms :
        /\ Len(filters.keywords) < MaxTerms
        /\ IsSubstring(Lower(k), Lower(movie.description))
        /\ Rescore([filters EXCEPT !.keywords = Append(@, k)])

NextScore == ScoreIt \/ AddGenre \/ AddMood \/ AddKeyword

SpecScore == InitScore /\ [][NextScore]_vars

-----------------------------------------------------------------------------
(* Properties of a session (checked under Spec) *)

RenderedTitles == Range(TitlesOf(rendered))

\* the ceiling the last run filtered by: filters.get("min_age_rating", "R")
Ceiling == GetMinAgeRating(parsed_filters, "R")

\* r sits above the ceiling c in G < PG < PG-13 < R < NC-17
Above(r, c) == InOrder(r) /\ InOrder(c) /\ Index(r) > Index(c)

\* the last run made the completion call and got a filter mapping back
RanWithFilters == run.trigger # "none" /\ run.reply.kind = "mapping"

\* C1 as stated: no rendered movie has an age_rating above the requested
\* min_age_rating, also when filter_movies_with_fallback returned its relaxed list.
C1_NeverAboveCeiling ==
    \A i \in 1..Len(rendered) : ~Above(rendered[i].age_rating, Ceiling)

\* the movies the last run could choose from that are at or below the ceiling
StrictlyAppropriateUnshown ==
    { m \in Range(all_movies) :
        /\ m.title \notin Range(run.pre_shown)
        /\ InOrder(m.age_rating) /\ InOrder(Ceiling)
        /\ Index(m.age_rating) <= Index(Ceiling) }

\* C1 amended: every rendered movie has a rating of the order; none is above the
\* ceiling while some unshown catalog movie is at or below it; when none is (the
\* relaxed list), every rendered movie is at most PG-13.
C1_AboveCeilingOnlyOnFallback ==
    \A i \in 1..Len(rendered) :
        LET r == rendered[i].age_rating
        IN  /\ InOrder(r)
            /\ Above(r, Ceiling) =>
                  /\ StrictlyAppropriateUnshown = {}
                  /\ r \in {"G", "PG", "PG-13"}
            /\ (~InOrder(Ceiling)) => r \in {"G", "PG", "PG-13"}

\* the relaxed list was rendered: a movie above a valid ceiling is on screen
C1_Witness ==
    /\ RanWithFilters
    /\ run.pre_shown # <<>>
    /\ \E i \in 1..Len(rendered) : Above(rendered[i].age_rating, Ceiling)

\* C2: a title rendered since shown_titles was last emptied is not rendered again
\* by a later run.
C2_NoRepeatUntilReset ==
    run.trigger # "none" => RenderedTitles \cap run.pre_displayed = {}

\* a run rendered movies although an earlier-rendered movie still matched the
\* filters and the ceiling
C2_Witness ==
    /\ RanWithFilters
    /\ rendered # <<>>
    /\ \E m \in Range(all_movies) :
          /\ m.title \in run.pre_displayed
          /\ score_movie(m, parsed_filters) > 0
          /\ is_rating_appropriate(m.age_rating, Ceiling)

\* C3 as stated: the run a press of "Show me different options" triggers renders
\* no title that was on screen when the button was pressed, for every press.
C3_PressShowsDifferentTitles ==
    run.trigger = "press" => RenderedTitles \cap Range(run.pre_rendered) = {}

\* C5: when the filter-extraction call fails or its reply is not parseable, the
\* run ends with the error message, renders nothing, makes no explanation call
\* and leaves shown_titles and shuffle_seed as they were.
C5_ExtractionFailureAborts ==
    (run.trigger # "none" /\ run.reply.kind \in {"api_error", "unparseable"}) =>
        /\ message = "gpt_error"
        /\ rendered = <<>>
        /\ ~button_shown
        /\ run.calls = 0
        /\ shown_titles = run.pre_shown
        /\ shuffle_seed = run.pre_seed

\* an unparseable reply arrived with movies on screen and titles tracked
C5_Witness ==
    /\ run.reply.kind = "unparseable"
    /\ run.pre_rendered # <<>>
    /\ run.pre_shown # <<>>

\* what the last run would have left had every explanation call succeeded
AllExplained ==
    { post \in RunOutcomes(all_movies, run.pre_shown, run.pre_seed, run.input,
                           run.reply, run.trigger = "press") :
        post.fails = {} }

\* C6: a failed explanation call changes nothing but that movie's explanation:
\* the same movies are rendered in the same order, the failed ones with the
\* placeholder, and shown_titles ends as when every call succeeds.
C6_ExplanationFailureKeepsResults ==
    RanWithFilters =>
        /\ message # "exception"
        /\ \A i \in run.fails :
              i <= Len(rendered) /\ rendered[i].explanation = Placeholder
        /\ \A i \in (1..Len(rendered)) \ run.fails :
              rendered[i].explanation = Explained
        /\ run.calls = Len(rendered)
        /\ \E post \in AllExplained :
              /\ TitlesOf(post.rendered) = TitlesOf(rendered)
              /\ post.button_shown = button_shown
              /\ post.shown_titles = shown_titles

\* an explanation call failed for one of several rendered movies, not the last
C6_Witness ==
    /\ RanWithFilters
    /\ Len(rendered) >= 3
    /\ run.fails = {2}
    /\ shown_titles # <<>>

\* C9: the example: filters {genres: ["Comedy"], min_age_rating: "PG"}, nothing
\* shown yet, a catalog of one PG comedy and one R drama: exactly the PG comedy
\* is rendered.
C9_ExampleRendersOnlyPgComedy ==
    ( /\ all_movies = ExampleCatalog
      /\ run.trigger # "none"
      /\ run.reply = Reply("mapping", ExampleFilters)
      /\ run.pre_shown = <<>> )
    => TitlesOf(rendered) = <<"PG Comedy">>

C9_Witness ==
    /\ all_movies = ExampleCatalog
    /\ run.trigger = "submit"
    /\ run.reply = Reply("mapping", ExampleFilters)
    /\ run.pre_shown = <<>>
    /\ rendered # <<>>

\* genre g (lower case) is asked for, in any letter case
Asked(g) == Contains(LowerAll(parsed_filters.genres), g)

HasGenre(genres, g) == Contains(LowerAll(genres), g)

\* C10: when the filter genres hold "horror" (or "romance") in any letter case,
\* every rendered movie has that genre; a catalog movie without it scores 0
\* whatever else matches; and no rendered movie scores 0.
C10_HardGenreRejection ==
    RanWithFilters =>
        \A g \in {horror, romance} :
            Asked(g) =>
                /\ \A i \in 1..Len(rendered) : HasGenre(rendered[i].genres, g)
                /\ \A m \in Range(all_movies) :
                      ~HasGenre(m.genres, g) => score_movie(m, parsed_filters) = 0
                /\ \A m \in Range(all_movies) :
                      m.title \in RenderedTitles => score_movie(m, parsed_filters) > 0

\* "HORROR" was asked for, movies were rendered, and an unshown movie at or
\* below the ceiling matched the mood or a keyword but is no horror movie
C10_Witness ==
    /\ RanWithFilters
    /\ Contains(parsed_filters.genres, Txt_HORROR)
    /\ rendered # <<>>
    /\ \E m \in Range(all_movies) :
          /\ m.title \notin Range(run.pre_shown)
          /\ ~HasGenre(m.genres, horror)
          /\ is_rating_appropriate(m.age_rating, Ceiling)
          /\ MoodScore(LowerAll(parsed_filters.mood), LowerAll(m.tags))
             + KeywordScore(LowerAll(parsed_filters.keywords), Lower(m.description)) > 0

-----------------------------------------------------------------------------
(* Two runs that start alike (checked under SpecStable) *)

-----------------------------------------------------------------------------
(* Properties of score_movie (checked under SpecScore) *)

\* C4: adding a genre of the movie, a mood among its tags or a keyword found in
\* its description to the filter mapping never lowers the movie's score.
C4_ScoreMonotonic == score >= score_before

\* a matching term was added to a mapping that asks for horror, for a movie
\* that scored already
C4_Witness ==
    /\ score_before > 0
    /\ Contains(LowerAll(filters.genres), horror)
    /\ Len(filters.genres) + Len(filters.mood) + Len(filters.keywords) >= 2

\* C8: with no genre, mood or keyword in the filter mapping the score is 1 when
\* the record's age_rating equals min_age_rating and 0 otherwise.
C8_BareFiltersScoreAgeBonusOnly ==
    ( /\ score # Unscored
      /\ filters.genres = <<>> /\ filters.mood = <<>> /\ filters.keywords = <<>> )
    => score = (IF movie.age_rating = filters.min_age_rating THEN 1 ELSE 0)

\* both outcomes: a bare mapping whose rating the record equals, scored 1
C8_Witness ==
    /\ score = 1
    /\ filters.genres = <<>> /\ filters.mood = <<>> /\ filters.keywords = <<>>
    /\ movie.age_rating = filters.min_age_rating

====
